---------------------------- MODULE Spec2Model ----------------------------
(***************************************************************************)
(* A model of reddit_blog_app.py: the five-stage BlogGenerator pipeline    *)
(* (Expand, Analyze, Metric, Final, Format), the BaseAgent.request_api     *)
(* client every stage calls, and the "Start Analysis" handler of main()    *)
(* that fetches the content, runs the pipeline and saves the result.       *)
(*                                                                         *)
(* Text is modelled as the sequence of its lexemes: the JSON punctuation   *)
(* { } [ ] : , the double and single quote, single digits, the blank, the  *)
(* newline, and words (every other lexeme).  Python values are records of  *)
(* one shape, so that values of different Python types can be compared.    *)
(***************************************************************************)
EXTENDS Integers, Sequences, FiniteSets, TLC

-----------------------------------------------------------------------------
(* Python values *)

\* str
StrVal(s) == [kind |-> "str", s |-> s, n |-> 0, items |-> <<>>]

\* int
IntVal(n) == [kind |-> "int", s |-> <<>>, n |-> n, items |-> <<>>]

\* bool (n is 1 for True)
BoolVal(b) == [kind |-> "bool", s |-> <<>>, n |-> IF b THEN 1 ELSE 0, items |-> <<>>]

\* None
NoneVal == [kind |-> "none", s |-> <<>>, n |-> 0, items |-> <<>>]

\* dict: items is the sequence of [k, v] in insertion order, k a text
DictVal(items) == [kind |-> "dict", s |-> <<>>, n |-> 0, items |-> items]

\* list: items is the sequence of [k, v] with k empty
ListVal(items) == [kind |-> "list", s |-> <<>>, n |-> 0, items |-> items]

Item(k, v) == [k |-> k, v |-> v]

\* Python truthiness, as `not raw_response` evaluates it
Falsy(v) ==
    CASE v.kind = "str" -> v.s = <<>>
      [] v.kind \in {"dict", "list"} -> v.items = <<>>
      [] v.kind \in {"int", "bool"} -> v.n = 0
      [] OTHER -> TRUE

\* the index of key k in a dict's items, 0 when absent
RECURSIVE KeyIndex(_, _, _)
KeyIndex(items, k, i) ==
    IF i > Len(items) THEN 0
    ELSE IF items[i].k = k THEN i
    ELSE KeyIndex(items, k, i + 1)

HasKey(d, k) == KeyIndex(d.items, k, 1) # 0

\* dict.get(k, default)
DictGet(d, k, default) ==
    LET i == KeyIndex(d.items, k, 1)
    IN  IF i = 0 THEN default ELSE d.items[i].v

\* d[k] = v: an existing key keeps its place, a new key goes last
DictSet(d, k, v) ==
    LET i == KeyIndex(d.items, k, 1)
    IN  IF i = 0 THEN DictVal(Append(d.items, Item(k, v)))
        ELSE DictVal([d.items EXCEPT ![i] = Item(k, v)])

\* dict.update(other): every item of other is set, in other's order
RECURSIVE UpdateFrom(_, _, _)
UpdateFrom(d, items, i) ==
    IF i > Len(items) THEN d
    ELSE UpdateFrom(DictSet(d, items[i].k, items[i].v), items, i + 1)

\* the state replaced by the update instead of merged with it
DictReplace(d, other) == other

DictUpdate(d, other) == UpdateFrom(d, other.items, 1)

DictKeys(d) == [i \in 1..Len(d.items) |-> d.items[i].k]

-----------------------------------------------------------------------------
(* Lexemes *)

DigitToks == <<"0", "1", "2", "3", "4", "5", "6", "7", "8", "9">>

IsDigit(c) == \E i \in 1..Len(DigitToks) : DigitToks[i] = c

DigitVal(c) == (CHOOSE i \in 1..Len(DigitToks) : DigitToks[i] = c) - 1

\* the decimal digits of a natural number
RECURSIVE Digits(_)
Digits(n) ==
    IF n < Len(DigitToks) THEN <<DigitToks[n + 1]>>
    ELSE Digits(n \div Len(DigitToks)) \o <<DigitToks[(n % Len(DigitToks)) + 1]>>

Contains(s, c) == \E i \in 1..Len(s) : s[i] = c

-----------------------------------------------------------------------------
(* json.loads *)

ParseFail == [ok |-> FALSE, val |-> NoneVal, pos |-> 0]

ParseOk(v, p) == [ok |-> TRUE, val |-> v, pos |-> p]

RECURSIVE SkipWs(_, _)
SkipWs(t, i) ==
    IF i <= Len(t) /\ t[i] \in {" ", "\n"} THEN SkipWs(t, i + 1) ELSE i

RECURSIVE ScanDigits(_, _, _)
ScanDigits(t, i, acc) ==
    IF i <= Len(t) /\ IsDigit(t[i])
    THEN ScanDigits(t, i + 1, acc * Len(DigitToks) + DigitVal(t[i]))
    ELSE ParseOk(IntVal(acc), i)

\* a number: a lone 0, or a run of digits not starting with 0
ScanNumber(t, i) ==
    IF t[i] = "0" THEN ParseOk(IntVal(0), i + 1) ELSE ScanDigits(t, i, 0)

\* the rest of a string literal, i being just after its opening quote; a raw
\* newline inside a literal is a control character, which the decoder rejects
RECURSIVE ScanString(_, _, _)
ScanString(t, i, acc) ==
    IF i > Len(t) THEN ParseFail
    ELSE IF t[i] = "\"" THEN ParseOk(StrVal(acc), i + 1)
    ELSE IF t[i] = "\n" THEN ParseFail
    ELSE ScanString(t, i + 1, Append(acc, t[i]))

RECURSIVE ParseValue(_, _)
RECURSIVE ParseMembers(_, _, _)
RECURSIVE ParseElements(_, _, _)

\* the members of an object, i being at the opening quote of the next key
ParseMembers(t, i, acc) ==
    IF i > Len(t) \/ t[i] # "\"" THEN ParseFail
    ELSE LET key == ScanString(t, i + 1, <<>>)
         IN  IF ~key.ok THEN ParseFail
             ELSE LET j == SkipWs(t, key.pos)
                  IN  IF j > Len(t) \/ t[j] # ":" THEN ParseFail
                      ELSE LET v == ParseValue(t, j + 1)
                           IN  IF ~v.ok THEN ParseFail
                               ELSE LET d == DictSet(acc, key.val.s, v.val)
                                        k == SkipWs(t, v.pos)
                                    IN  IF k > Len(t) THEN ParseFail
                                        ELSE IF t[k] = "}" THEN ParseOk(d, k + 1)
                                        ELSE IF t[k] = ","
                                             THEN ParseMembers(t, SkipWs(t, k + 1), d)
                                        ELSE ParseFail

\* the elements of an array, i being at the start of the next element
ParseElements(t, i, acc) ==
    LET v == ParseValue(t, i)
    IN  IF ~v.ok THEN ParseFail
        ELSE LET l == ListVal(Append(acc.items, Item(<<>>, v.val)))
                 k == SkipWs(t, v.pos)
             IN  IF k > Len(t) THEN ParseFail
                 ELSE IF t[k] = "]" THEN ParseOk(l, k + 1)
                 ELSE IF t[k] = "," THEN ParseElements(t, k + 1, l)
                 ELSE ParseFail

ParseValue(t, i0) ==
    LET i == SkipWs(t, i0)
    IN  IF i > Len(t) THEN ParseFail
        ELSE CASE t[i] = "{" ->
                    LET j == SkipWs(t, i + 1)
                    IN  IF j <= Len(t) /\ t[j] = "}" THEN ParseOk(DictVal(<<>>), j + 1)
                        ELSE ParseMembers(t, j, DictVal(<<>>))
               [] t[i] = "[" ->
                    LET j == SkipWs(t, i + 1)
                    IN  IF j <= Len(t) /\ t[j] = "]" THEN ParseOk(ListVal(<<>>), j + 1)
                        ELSE ParseElements(t, j, ListVal(<<>>))
               [] t[i] = "\"" -> ScanString(t, i + 1, <<>>)
               [] IsDigit(t[i]) -> ScanNumber(t, i)
               [] t[i] = "true" -> ParseOk(BoolVal(TRUE), i + 1)
               [] t[i] = "false" -> ParseOk(BoolVal(FALSE), i + 1)
               [] t[i] = "null" -> ParseOk(NoneVal, i + 1)
               [] OTHER -> ParseFail

\* json.loads of a text: ok is FALSE where the decoder raises JSONDecodeError
\* (no value, a malformed value, or extra data after the value)
JsonLoads(t) ==
    LET r == ParseValue(t, 1)
    IN  IF r.ok /\ SkipWs(t, r.pos) = Len(t) + 1
        THEN [ok |-> TRUE, val |-> r.val]
        ELSE [ok |-> FALSE, val |-> NoneVal]

-----------------------------------------------------------------------------
(* json.dumps, repr and str *)

\* the lexemes of a string's body with the newline and the quote q escaped
RECURSIVE Escape(_, _)
Escape(s, q) ==
    IF s = <<>> THEN <<>>
    ELSE LET c == Head(s)
             e == IF c = "\n" THEN <<"\\n">>
                  ELSE IF c = q THEN <<"\\", q>>
                  ELSE <<c>>
         IN  e \o Escape(Tail(s), q)

\* repr of a str: single quotes, unless it holds a single and no double quote
ReprStr(s) ==
    LET q == IF Contains(s, "'") /\ ~Contains(s, "\"") THEN "\"" ELSE "'"
    IN  <<q>> \o Escape(s, q) \o <<q>>

RECURSIVE PyRepr(_)
RECURSIVE ReprItems(_, _, _)

\* the items of a dict (keyed) or of a list, separated by ", "
ReprItems(items, keyed, i) ==
    IF i > Len(items) THEN <<>>
    ELSE (IF i > 1 THEN <<",", " ">> ELSE <<>>)
         \o (IF keyed THEN ReprStr(items[i].k) \o <<":", " ">> ELSE <<>>)
         \o PyRepr(items[i].v)
         \o ReprItems(items, keyed, i + 1)

PyRepr(v) ==
    CASE v.kind = "str" -> ReprStr(v.s)
      [] v.kind = "int" -> Digits(v.n)
      [] v.kind = "bool" -> IF v.n = 1 THEN <<"True">> ELSE <<"False">>
      [] v.kind = "dict" -> <<"{">> \o ReprItems(v.items, TRUE, 1) \o <<"}">>
      [] v.kind = "list" -> <<"[">> \o ReprItems(v.items, FALSE, 1) \o <<"]">>
      [] OTHER -> <<"None">>

\* str(v), which an f-string applies to the value it interpolates
PyStr(v) == IF v.kind = "str" THEN v.s ELSE PyRepr(v)

RECURSIVE JsonDumps(_)
RECURSIVE DumpItems(_, _, _)

DumpItems(items, keyed, i) ==
    IF i > Len(items) THEN <<>>
    ELSE (IF i > 1 THEN <<",", " ">> ELSE <<>>)
         \o (IF keyed THEN <<"\"">> \o Escape(items[i].k, "\"") \o <<"\"", ":", " ">>
             ELSE <<>>)
         \o JsonDumps(items[i].v)
         \o DumpItems(items, keyed, i + 1)

\* json.dumps with the default separators
JsonDumps(v) ==
    CASE v.kind = "str" -> <<"\"">> \o Escape(v.s, "\"") \o <<"\"">>
      [] v.kind = "int" -> Digits(v.n)
      [] v.kind = "bool" -> IF v.n = 1 THEN <<"true">> ELSE <<"false">>
      [] v.kind = "dict" -> <<"{">> \o DumpItems(v.items, TRUE, 1) \o <<"}">>
      [] v.kind = "list" -> <<"[">> \o DumpItems(v.items, FALSE, 1) \o <<"]">>
      [] OTHER -> <<"null">>

-----------------------------------------------------------------------------
(* The outcome of a call: a returned value, or a raised exception.  posted  *)
(* is the prompt the call posted to the endpoint, got the value request_api *)
(* handed back for it.                                                      *)

Return(v, p, g) == [exc |-> "", val |-> v, posted |-> p, got |-> g]

Raise(e, p, g) == [exc |-> e, val |-> NoneVal, posted |-> p, got |-> g]

-----------------------------------------------------------------------------
(* The endpoint's answers to one requests.post *)

HttpOk == 200

\* requests.post raised (connection refused, timeout, ...)
TransportError == [raised |-> TRUE, status |-> 0, decodes |-> FALSE, json |-> NoneVal]

\* an answer with a status and a body; decodes says whether response.json()
\* decodes the body, json is the decoded body
Answer(status, decodes, json) ==
    [raised |-> FALSE, status |-> status, decodes |-> decodes, json |-> json]

\* the body of a completed generation: {"response": text, "done": true}
Generated(text) ==
    DictVal(<<Item(<<"response">>, StrVal(text)), Item(<<"done">>, BoolVal(TRUE))>>)

\* the body of an error answer, which has no "response" field
ErrorPayload == DictVal(<<Item(<<"error">>, StrVal(<<"model", " ", "not", " ", "found">>))>>)

TextNotValid == <<"not", " ", "valid", " ", "data">>

TextMetrics == <<"{", "\"", "engagement", "\"", ":", " ", "4", "2", "}">>

TextNumber == <<"4", "2">>

\* the texts the model generates
ModelTexts == {<<>>, TextNotValid, TextMetrics, TextNumber}

Http ==
    {TransportError,
     Answer(500, TRUE, ErrorPayload),
     Answer(201, TRUE, Generated(TextMetrics)),
     Answer(HttpOk, FALSE, NoneVal),
     Answer(HttpOk, TRUE, ListVal(<<Item(<<>>, IntVal(1))>>)),
     Answer(HttpOk, TRUE, ErrorPayload)}
    \cup {Answer(HttpOk, TRUE, Generated(t)) : t \in ModelTexts}

-----------------------------------------------------------------------------
(* BaseAgent.request_api *)

\* request_api without its status check: an answer is read whatever its status
ApiValueAnyStatus(h) ==
    IF h.raised THEN StrVal(<<>>)
    ELSE IF ~h.decodes THEN StrVal(<<>>)
    ELSE IF h.json.kind # "dict" THEN StrVal(<<>>)
    ELSE DictGet(h.json, <<"response">>, h.json)

\* what request_api returns for the endpoint's answer h
ApiValue(h) ==
    IF h.raised THEN StrVal(<<>>)
    ELSE IF h.status # HttpOk THEN StrVal(<<>>)
    ELSE IF ~h.decodes THEN StrVal(<<>>)
    \* .get on a body that is no dict raises AttributeError, which is caught
    ELSE IF h.json.kind # "dict" THEN StrVal(<<>>)
    ELSE DictGet(h.json, <<"response">>, h.json)

\* every exception is caught inside request_api: the call always returns
RequestApi(prompt, h) == Return(ApiValue(h), prompt, ApiValue(h))

-----------------------------------------------------------------------------
(* The stage agents *)

Partial(k, v) == DictVal(<<Item(<<k>>, v)>>)

\* the result of a stage whose only work is one request: the update {k: value}
Wrap(k, r) == IF r.exc # "" THEN r ELSE Return(Partial(k, r.val), r.posted, r.got)

ExpandPrompt(content) == <<"Expand", ":", " ">> \o PyStr(content)

ExpandProcess(content, h) == Wrap("expanded", RequestApi(ExpandPrompt(content), h))

AnalyzePrompt(state) ==
    <<"Analyze", ":", " ">> \o PyStr(DictGet(state, <<"expanded">>, StrVal(<<>>)))

AnalyzeProcess(state, h) == Wrap("analysis", RequestApi(AnalyzePrompt(state), h))

MetricPrompt(state) ==
    <<"Extract", " ", "Metrics", ":", " ">>
    \o PyStr(DictGet(state, <<"analysis">>, StrVal(<<>>)))

\* MetricAgent.process storing an empty response as it came
MetricProcessKeepsEmpty(state, h) ==
    LET r == RequestApi(MetricPrompt(state), h)
    IN  IF r.exc # "" THEN r
        ELSE IF Falsy(r.val) THEN Return(Partial("metrics", r.val), r.posted, r.got)
        ELSE IF r.val.kind # "str" THEN Raise("TypeError", r.posted, r.got)
        ELSE LET parsed == JsonLoads(r.val.s)
             IN  IF parsed.ok THEN Return(Partial("metrics", parsed.val), r.posted, r.got)
                 ELSE Return(Partial("metrics", DictVal(<<>>)), r.posted, r.got)

MetricProcess(state, h) ==
    LET r == RequestApi(MetricPrompt(state), h)
    IN  IF r.exc # "" THEN r
        ELSE IF Falsy(r.val) THEN Return(Partial("metrics", DictVal(<<>>)), r.posted, r.got)
        \* json.loads of a value that is no str raises TypeError, which the
        \* except clause (JSONDecodeError) does not catch
        ELSE IF r.val.kind # "str" THEN Raise("TypeError", r.posted, r.got)
        ELSE LET parsed == JsonLoads(r.val.s)
             IN  IF parsed.ok THEN Return(Partial("metrics", parsed.val), r.posted, r.got)
                 ELSE Return(Partial("metrics", DictVal(<<>>)), r.posted, r.got)

FinalPrompt(state) ==
    <<"Generate", " ", "Blog", ":", " ">>
    \o PyStr(DictGet(state, <<"metrics">>, StrVal(<<>>)))

FinalProcess(state, h) == Wrap("final_blog", RequestApi(FinalPrompt(state), h))

\* the formatting guidelines, up to the line "Content to format:"
FormatGuidelines ==
    <<"\n", "Transform this raw content into a properly formatted Markdown blog post.",
      "\n", "Content to format:", "\n">>

FormatPrompt(state) ==
    FormatGuidelines \o PyStr(DictGet(state, <<"final_blog">>, StrVal(<<>>))) \o <<"\n">>

FormatProcess(state, h) == Wrap("final_blog", RequestApi(FormatPrompt(state), h))

\* self.agents[node].process(state)
AgentProcess(node, state, h) ==
    CASE node = "Expand" -> ExpandProcess(state, h)
      [] node = "Analyze" -> AnalyzeProcess(state, h)
      [] node = "Metric" -> MetricProcess(state, h)
      [] node = "Final" -> FinalProcess(state, h)
      [] node = "Format" -> FormatProcess(state, h)

-----------------------------------------------------------------------------
(* The workflow graph and its topological order *)

Workflow ==
    << <<"Expand", "Analyze">>, <<"Analyze", "Metric">>,
       <<"Metric", "Final">>, <<"Final", "Format">> >>

\* the nodes in the order DiGraph adds them: each edge's source, then its target
RECURSIVE NodesOf(_, _, _)
NodesOf(edges, i, acc) ==
    IF i > Len(edges) THEN acc
    ELSE LET u == edges[i][1]
             v == edges[i][2]
             a == IF Contains(acc, u) THEN acc ELSE Append(acc, u)
         IN  NodesOf(edges, i + 1, IF Contains(a, v) THEN a ELSE Append(a, v))

\* generation by generation: the nodes all of whose predecessors are emitted
RECURSIVE TopoFrom(_, _, _)
TopoFrom(edges, done, rest) ==
    LET Ready(n) == \A i \in 1..Len(edges) : edges[i][2] = n => Contains(done, edges[i][1])
        Waiting(n) == ~Ready(n)
        ready == SelectSeq(rest, Ready)
    IN  IF rest = <<>> \/ ready = <<>> THEN done
        ELSE TopoFrom(edges, done \o ready, SelectSeq(rest, Waiting))

TopologicalSort(edges) == TopoFrom(edges, <<>>, NodesOf(edges, 1, <<>>))

-----------------------------------------------------------------------------
(* The application: main()'s "Start Analysis" handler *)

\* how many times the user presses "Start Analysis"
MaxRuns == 1

VARIABLES
    pc,        \* where the handler is: idle, fetch, begin, stage, save, show, done, error
    runs,      \* the presses of "Start Analysis" so far
    content,   \* main's content, the text fetch_content returned
    state,     \* run_analysis's state dict
    order,     \* the topological order run_analysis iterates over
    idx,       \* the position in order of the next node
    posted,    \* the requests of this run so far: [node, prompt, result]
    lastHttp,  \* the endpoint's answer to the last request
    db,        \* the rows of the results table
    shown,     \* the metric keys the page lists under "Detailed Metrics"
    err        \* the exception that ended the handler: [at, exc]

vars == <<pc, runs, content, state, order, idx, posted, lastHttp, db, shown, err>>

NoErr == [at |-> "", exc |-> ""]

NoHttp == Answer(0, FALSE, NoneVal)

PostA == <<"Post", " ", "A">>

PostB == <<"Post", " ", "B">>

\* what the account holds: the submissions (title, selftext) and the comments
Accounts ==
    {[submissions |-> <<>>, comments |-> <<>>],
     [submissions |-> << <<PostA, <<>> >> >>, comments |-> <<>>],
     [submissions |-> << <<PostA, <<"text">> >> >>, comments |-> <<PostB>>]}

\* "\n\n".join(texts)
RECURSIVE JoinTexts(_, _)
JoinTexts(texts, i) ==
    IF i > Len(texts) THEN <<>>
    ELSE (IF i > 1 THEN <<"\n", "\n">> ELSE <<>>) \o texts[i] \o JoinTexts(texts, i + 1)

\* RedditManager.fetch_content on an account it can read
FetchedContent(account) ==
    LET subs == [i \in 1..Len(account.submissions) |->
                    account.submissions[i][1] \o <<"\n">> \o account.submissions[i][2]]
    IN  JoinTexts(subs \o account.comments, 1)

Init ==
    /\ pc = "idle"
    /\ runs = 0
    /\ content = <<>>
    /\ state = DictVal(<<>>)
    /\ order = <<>>
    /\ idx = 0
    /\ posted = <<>>
    /\ lastHttp = NoHttp
    /\ db = <<>>
    /\ shown = <<>>
    /\ err = NoErr

\* the button is pressed: the script runs again with fresh locals
StartAnalysis ==
    /\ pc \in {"idle", "done", "error"}
    /\ runs < MaxRuns
    /\ pc' = "fetch"
    /\ runs' = runs + 1
    /\ content' = <<>>
    /\ state' = DictVal(<<>>)
    /\ order' = <<>>
    /\ idx' = 0
    /\ posted' = <<>>
    /\ lastHttp' = NoHttp
    /\ shown' = <<>>
    /\ err' = NoErr
    /\ UNCHANGED db

\* content = reddit_manager.fetch_content(post_limit)
FetchContent ==
    /\ pc = "fetch"
    /\ \E account \in Accounts :
        /\ content' = FetchedContent(account)
        /\ pc' = "begin"
    /\ UNCHANGED <<runs, state, order, idx, posted, lastHttp, db, shown, err>>

\* fetch_content's exception swallowed: the handler goes on with no content
FetchRaisesSwallowed ==
    /\ pc = "fetch"
    /\ pc' = "begin"
    /\ err' = [at |-> "fetch_content", exc |-> "ResponseException"]
    /\ UNCHANGED <<runs, content, state, order, idx, posted, lastHttp, db, shown>>

\* fetch_content raises (the account cannot be read): the handler ends
FetchRaises ==
    /\ pc = "fetch"
    /\ pc' = "error"
    /\ err' = [at |-> "fetch_content", exc |-> "ResponseException"]
    /\ UNCHANGED <<runs, content, state, order, idx, posted, lastHttp, db, shown>>

\* run_analysis: the initial state and the order of the loop
RunAnalysisBegin ==
    /\ pc = "begin"
    /\ state' = DictVal(<<Item(<<"raw_content">>, StrVal(content))>>)
    /\ order' = TopologicalSort(Workflow)
    /\ idx' = 1
    /\ pc' = "stage"
    /\ UNCHANGED <<runs, content, posted, lastHttp, db, shown, err>>

\* one turn of the loop: state.update(self.agents[node].process(state))
StageStep(node) ==
    /\ pc = "stage"
    /\ idx <= Len(order)
    /\ order[idx] = node
    /\ \E h \in Http :
        LET r == AgentProcess(node, state, h)
        IN  /\ lastHttp' = h
            /\ posted' = Append(posted, [node |-> node, prompt |-> r.posted,
                                          result |-> r.got])
            /\ IF r.exc = ""
               THEN /\ state' = DictUpdate(state, r.val)
                    /\ idx' = idx + 1
                    /\ UNCHANGED <<pc, err>>
               ELSE /\ pc' = "error"
                    /\ err' = [at |-> node, exc |-> r.exc]
                    /\ UNCHANGED <<state, idx>>
    /\ UNCHANGED <<runs, content, order, db, shown>>

ExpandStep == StageStep("Expand")

AnalyzeStep == StageStep("Analyze")

MetricStep == StageStep("Metric")

FinalStep == StageStep("Final")

FormatStep == StageStep("Format")

\* the loop is over: run_analysis returns state, main binds it to results
RunAnalysisReturn ==
    /\ pc = "stage"
    /\ idx > Len(order)
    /\ pc' = "save"
    /\ UNCHANGED <<runs, content, state, order, idx, posted, lastHttp, db, shown, err>>

\* the values sqlite3 binds to a parameter
Bindable(v) == v.kind \in {"str", "int", "bool", "none"}

\* the row save_to_db inserts (the timestamp column is left out)
Row(metrics, final_blog, status) ==
    [metrics |-> JsonDumps(metrics), final_blog |-> final_blog, status |-> status]

\* save_to_db(results['metrics'], results['final_blog'])
SaveToDb ==
    /\ pc = "save"
    /\ LET missing == ~HasKey(state, <<"metrics">>) \/ ~HasKey(state, <<"final_blog">>)
           metrics == DictGet(state, <<"metrics">>, NoneVal)
           final_blog == DictGet(state, <<"final_blog">>, NoneVal)
       IN  IF missing
           THEN /\ pc' = "error"
                /\ err' = [at |-> "main", exc |-> "KeyError"]
                /\ UNCHANGED db
           ELSE IF ~Bindable(final_blog)
           THEN /\ pc' = "error"
                /\ err' = [at |-> "save_to_db", exc |-> "ProgrammingError"]
                /\ UNCHANGED db
           ELSE /\ db' = Append(db, Row(metrics, final_blog, "complete"))
                /\ pc' = "show"
                /\ UNCHANGED err
    /\ UNCHANGED <<runs, content, state, order, idx, posted, lastHttp, shown>>

\* the page: the full results, each metric of a dict, the blog post
ShowResults ==
    /\ pc = "show"
    /\ LET metrics == DictGet(state, <<"metrics">>, NoneVal)
       IN  shown' = IF HasKey(state, <<"metrics">>) /\ metrics.kind = "dict"
                    THEN DictKeys(metrics) ELSE <<>>
    /\ pc' = "done"
    /\ UNCHANGED <<runs, content, state, order, idx, posted, lastHttp, db, err>>

Next ==
    \/ StartAnalysis
    \/ FetchContent
    \/ FetchRaises
    \/ RunAnalysisBegin
    \/ ExpandStep
    \/ AnalyzeStep
    \/ MetricStep
    \/ FinalStep
    \/ FormatStep
    \/ RunAnalysisReturn
    \/ SaveToDb
    \/ ShowResults

Spec == Init /\ [][Next]_vars

-----------------------------------------------------------------------------
(* Properties *)

\* the order and the fields the specification states
ClaimedOrder == <<"Expand", "Analyze", "Metric", "Final", "Format">>

ClaimedKeys == {"raw_content", "expanded", "analysis", "metrics", "final_blog"}

StageNames == {ClaimedOrder[i] : i \in 1..Len(ClaimedOrder)}

EmptyStr == StrVal(<<>>)

PostedNodes == [i \in 1..Len(posted) |-> posted[i].node]

\* run_analysis has returned its state to main
Returned ==
    \/ pc \in {"save", "show", "done"}
    \/ pc = "error" /\ err.at \in {"main", "save_to_db"}

\* a stage's process raised, which ended run_analysis and the handler
RaisedInStage == pc = "error" /\ err.at \in StageNames

RunAnalysisEnded == Returned \/ RaisedInStage

Field(k) == DictGet(state, <<k>>, NoneVal)

\* C1: every call of run_analysis, once it has ended, has invoked the five
\* stages exactly once each in the order Expand, Analyze, Metric, Final,
\* Format, whatever the model calls returned.
C1_FiveStagesInOrder == RunAnalysisEnded => PostedNodes = ClaimedOrder

\* C2: for any outcomes of the model calls run_analysis returns a state, and
\* that state holds all of raw_content, expanded, analysis, metrics, final_blog.
C2_ReturnsAllKeys ==
    RunAnalysisEnded => Returned /\ \A k \in ClaimedKeys : HasKey(state, <<k>>)

AllEmptySoFar == \A i \in 1..Len(posted) : posted[i].result = EmptyStr

\* C3: while request_api has returned "" to every call of the run no stage has
\* raised, and once it has done so for all five calls the run goes on to
\* return with metrics == {} and final_blog == "", which main saves.
C3_AllEmptyCompletes ==
    (posted # <<>> /\ AllEmptySoFar) =>
        /\ pc # "error"
        /\ Len(posted) = Len(ClaimedOrder) =>
            /\ Field("metrics") = DictVal(<<>>)
            /\ Field("final_blog") = EmptyStr
            /\ pc \in {"stage", "save", "show", "done"}
            /\ pc \in {"show", "done"} => db # <<>>

C3_Witness ==
    /\ pc = "done"
    /\ Len(posted) = Len(ClaimedOrder)
    /\ AllEmptySoFar
    /\ Field("metrics") = DictVal(<<>>)
    /\ Field("final_blog") = EmptyStr

MetricCalled == Len(posted) >= 3 /\ posted[3].node = "Metric"

\* C4: MetricAgent.process never raises: for "" and for text that does not
\* parse it writes metrics == {} (so for `not valid data`), for text that
\* parses it writes the parsed value (so {"engagement": 42} for that text).
C4_MetricNeverRaises ==
    MetricCalled =>
        LET got == posted[3].result
        IN  /\ err.at # "Metric"
            /\ HasKey(state, <<"metrics">>)
            /\ got \in {EmptyStr, StrVal(TextNotValid)} => Field("metrics") = DictVal(<<>>)
            /\ got = StrVal(TextMetrics) =>
                Field("metrics") = DictVal(<<Item(<<"engagement">>, IntVal(42))>>)
            /\ (got.kind = "str" /\ got # EmptyStr) =>
                Field("metrics") = IF JsonLoads(got.s).ok THEN JsonLoads(got.s).val
                                   ELSE DictVal(<<>>)

\* C5: no stage raises, whatever request_api handed back to it (text, "", or
\* the raw payload of an answer without the response field): a handler that
\* ended in an error did not end in a stage.
C5_NoStageRaises == pc = "error" => err.at \notin StageNames

\* the endpoint answered outside 2xx, the transport failed, or the body of a
\* 200 answer could not be decoded
FailedAnswer(h) ==
    \/ h.raised
    \/ h.status < 200 \/ h.status > 299
    \/ h.status = HttpOk /\ ~h.decodes

\* C6: when the endpoint answers with a non-2xx status, the transport fails
\* or the body cannot be decoded, request_api returns "" to the stage and
\* the stage sees no exception.
C6_RequestApiFailsSoft ==
    (posted # <<>> /\ FailedAnswer(lastHttp)) =>
        /\ posted[Len(posted)].result = EmptyStr
        /\ err.at # posted[Len(posted)].node

C6_Witness ==
    /\ posted # <<>>
    /\ lastHttp.status = 500
    /\ lastHttp.json = ErrorPayload
    /\ posted[Len(posted)].result = EmptyStr
    /\ pc = "stage"

\* C7: a row is inserted only by save_to_db after the fetch succeeded and all
\* five stages of the run completed, one row at a time; when fetch_content
\* raises, no request is posted and no row is inserted in that run.
C7_SaveOnlyAfterFullRun ==
    [][/\ db' # db =>
            /\ pc = "save"
            /\ err = NoErr
            /\ PostedNodes = ClaimedOrder
            /\ \A k \in ClaimedKeys : HasKey(state, <<k>>)
            /\ Len(db') = Len(db) + 1
       /\ err.at = "fetch_content" =>
            /\ posted = <<>>
            /\ pc = "error"
            /\ db' = db]_vars

C7_Witness ==
    /\ pc = "show"
    /\ db # <<>>
    /\ PostedNodes = ClaimedOrder
    /\ err = NoErr

\* C8: wherever the state has a metrics field it is a mapping, and every
\* saved row's metrics column decodes to a mapping.
C8_MetricsIsMapping ==
    /\ HasKey(state, <<"metrics">>) => Field("metrics").kind = "dict"
    /\ \A i \in 1..Len(db) : JsonLoads(db[i].metrics).val.kind = "dict"

\* the text a stage is specified to read: the raw content for Expand, the result
\* of the stage before it for the others (metrics, not its source text, for Final)
ClaimedInput(i) ==
    CASE i = 1 -> content
      [] i = 4 -> PyStr(Field("metrics"))
      [] OTHER -> PyStr(posted[i - 1].result)

ClaimedPrompt(i) ==
    CASE posted[i].node = "Expand" -> <<"Expand", ":", " ">> \o ClaimedInput(i)
      [] posted[i].node = "Analyze" -> <<"Analyze", ":", " ">> \o ClaimedInput(i)
      [] posted[i].node = "Metric" ->
            <<"Extract", " ", "Metrics", ":", " ">> \o ClaimedInput(i)
      [] posted[i].node = "Final" -> <<"Generate", " ", "Blog", ":", " ">> \o ClaimedInput(i)
      [] OTHER -> FormatGuidelines \o ClaimedInput(i) \o <<"\n">>

\* C9: every prompt posted is the stage's template filled with the value of
\* the one field the stage reads; Expand's is "Expand: " followed by the raw
\* content text itself.
C9_PromptFromPriorField ==
    \A i \in 1..Len(posted) : posted[i].prompt = ClaimedPrompt(i)

Owned(node) ==
    CASE node = "Expand" -> "expanded"
      [] node = "Analyze" -> "analysis"
      [] node = "Metric" -> "metrics"
      [] OTHER -> "final_blog"

InRun == pc \in {"stage", "save", "show", "done"} \/ RaisedInStage

\* C10: a stage's process returns an update of the one field it owns, and a
\* turn of the loop leaves every other field with its key and value, removes
\* no field and adds none but the owned one; raw_content stays the input.
C10_StageChangesOwnField ==
    [][/\ (pc = "stage" /\ idx <= Len(order)) =>
            /\ \A h \in Http :
                LET r == AgentProcess(order[idx], state, h)
                IN  r.exc = "" => DictKeys(r.val) = << <<Owned(order[idx])>> >>
            /\ \A k \in ClaimedKeys :
                /\ HasKey(state, <<k>>) => HasKey(state', <<k>>)
                /\ k # Owned(order[idx]) =>
                    /\ HasKey(state', <<k>>) = HasKey(state, <<k>>)
                    /\ DictGet(state', <<k>>, NoneVal) = Field(k)
            /\ Len(state'.items) <= Len(state.items) + 1
       /\ InRun' => DictGet(state', <<"raw_content">>, NoneVal) = StrVal(content')]_vars

C10_Witness ==
    /\ pc = "done"
    /\ content # <<>>
    /\ Field("raw_content") = StrVal(content)
    /\ \A k \in ClaimedKeys : HasKey(state, <<k>>)
    /\ Field("final_blog") # EmptyStr

=============================================================================
